---- MODULE Spec2Model ----
(***************************************************************************)
(* Model of Duplicator (uDesktopDuplication): construction, the Start/Stop *)
(* control operations, the capture thread's loop and one tick (Duplicate   *)
(* with its leading Release).                                              *)
(*                                                                         *)
(* Threads interleave at the granularity of one shared-memory access or    *)
(* one driver call per step.  state_, shouldRun_ and thread_ are plain     *)
(* members accessed without a lock; the model gives every access the       *)
(* value some interleaving of whole reads and writes produces.             *)
(***************************************************************************)
EXTENDS Integers, Sequences, FiniteSets, TLC

VARIABLES
    cons,              \* position inside Duplicator::Duplicator
    state_,            \* Duplicator::state_
    deviceCreated,     \* outcome of IsolatedD3D11Device::Create
    dupl_,             \* TRUE iff dupl_ holds a duplication handle
    duplHr,            \* HRESULT of DuplicateOutput, "not_called" if not reached
    isUnityAdapter,    \* capture adapter LUID = Unity adapter LUID
    shouldRun_,        \* Duplicator::shouldRun_
    thread_,           \* Duplicator::thread_: 0 = not joinable, else the thread it owns
    isFrameAcquired_,  \* Duplicator::isFrameAcquired_
    lastFrameId_,      \* Duplicator::lastFrameId_
    lastFrame_,        \* Duplicator::lastFrame_ (the published snapshot)
    callers,           \* the control threads that call Start() and Stop()
    pc,                \* position of each control thread
    inStart,           \* control thread runs Stop() as the callee of Start()
    joining,           \* the thread a control thread is blocked in join() on
    temp,              \* the temporary std::thread a control thread constructed
    ret,               \* how the last call of each control thread returned
    calls,             \* calls made by each control thread (counted when concurrent)
    cpc,               \* position of each capture thread ("none" = no such thread)
    terminated,        \* std::terminate was called
    tickEntry,         \* state_ when the current tick (Duplicate) was entered
    relHr,             \* outcome of the current tick's leading Release
    acqHr,             \* HRESULT of the current tick's AcquireNextFrame
    published,         \* ids of the snapshots published so far, in order
    readers,           \* the threads that call GetLastFrame()
    mutex_,            \* Duplicator::mutex_: "free" or its holder
    rpc,               \* position of the reader thread
    seen,              \* fields the reader read through the reference it got
    metaData_,         \* Duplicator::metaData_: the capacity of its buffer
    requested,         \* TotalMetadataBufferSize passed to UpdateMetadata: largest, last
    started,           \* whether Start() was called, and whether it spawned a thread
    outcome,           \* the tick outcomes so far end with success, access-lost
    tickResult,        \* how far the current tick got after its acquisition
    fatal              \* a tick's Release or acquisition set an error state

vars == <<cons, state_, deviceCreated, dupl_, duplHr, isUnityAdapter, shouldRun_,
          thread_, isFrameAcquired_, lastFrameId_, lastFrame_, callers, pc,
          inStart, joining, temp, ret, calls, cpc, terminated, tickEntry, relHr, acqHr,
          published, readers, mutex_, rpc, seen, metaData_, requested, started,
          outcome, tickResult, fatal>>

-----------------------------------------------------------------------------
(* Bounds *)

\* successful ticks (published snapshots) explored
MaxFrames == 3
\* successful ticks explored when two control threads run concurrently
MaxFramesConcurrent == 1
\* successful ticks explored when a reader thread runs beside the capture thread
MaxFramesReader == 2
\* largest TotalMetadataBufferSize a frame reports
MaxMetadataSize == 2
\* calls each control thread makes when two control threads run concurrently
MaxCallsConcurrent == 2
\* capture thread objects that can exist at once
MaxThreads == 2

Threads == 1..MaxThreads
ControlThreads == {"c1", "c2"}

-----------------------------------------------------------------------------
(* Types *)

States == {"Ready", "Running", "AccessLost", "AccessDenied", "Unsupported",
           "CurrentlyNotAvailable", "SessionDisconnected", "InvalidArg", "Unknown"}

\* HRESULTs DuplicateOutput can return; E_FAIL and DXGI_STATUS_OCCLUDED stand for
\* the codes the switch has no case for (a failure and a success code)
DuplicateOutputHr == {"S_OK", "E_INVALIDARG", "E_ACCESSDENIED", "DXGI_ERROR_UNSUPPORTED",
                      "DXGI_ERROR_NOT_CURRENTLY_AVAILABLE",
                      "DXGI_ERROR_SESSION_DISCONNECTED", "E_FAIL", "DXGI_STATUS_OCCLUDED"}

AcquireNextFrameHr == {"S_OK", "DXGI_ERROR_ACCESS_LOST", "DXGI_ERROR_WAIT_TIMEOUT",
                       "DXGI_ERROR_INVALID_CALL", "E_INVALIDARG", "E_FAIL"}

ReleaseFrameHr == {"S_OK", "DXGI_ERROR_ACCESS_LOST", "DXGI_ERROR_INVALID_CALL", "E_FAIL"}

\* the FAILED() macro: the success codes are the non-negative HRESULTs
FAILED(hr) == hr \notin {"S_OK", "DXGI_STATUS_OCCLUDED"}

-----------------------------------------------------------------------------
(* Pure parts of the operations *)

IsErrorState(s) == s # "Ready" /\ s # "Running"

IsError == IsErrorState(state_)

IsRunning == state_ = "Running"

\* InitializeDevice: the state after IsolatedD3D11Device::Create returned
InitializeDeviceState(s, created) == IF created THEN s ELSE "Unknown"

\* faulty variant: the switch without its E_ACCESSDENIED case
InitializeDuplicationState_NoAccessDenied(hr) ==
    CASE hr = "S_OK" -> "Ready"
      [] hr = "E_INVALIDARG" -> "InvalidArg"
      [] hr = "DXGI_ERROR_UNSUPPORTED" -> "Unsupported"
      [] hr = "DXGI_ERROR_NOT_CURRENTLY_AVAILABLE" -> "CurrentlyNotAvailable"
      [] hr = "DXGI_ERROR_SESSION_DISCONNECTED" -> "SessionDisconnected"
      [] OTHER -> "Unknown"

\* InitializeDuplication: the switch over the HRESULT of DuplicateOutput
InitializeDuplicationState(hr) ==
    CASE hr = "S_OK" -> "Ready"
      [] hr = "E_INVALIDARG" -> "InvalidArg"
      [] hr = "E_ACCESSDENIED" -> "AccessDenied"
      [] hr = "DXGI_ERROR_UNSUPPORTED" -> "Unsupported"
      [] hr = "DXGI_ERROR_NOT_CURRENTLY_AVAILABLE" -> "CurrentlyNotAvailable"
      [] hr = "DXGI_ERROR_SESSION_DISCONNECTED" -> "SessionDisconnected"
      [] OTHER -> "Unknown"

\* faulty variant: the adapter check only downgrades a Ready session
CheckUnityAdapterState_OnlyIfReady(s, isUnity) ==
    IF ~isUnity /\ s = "Ready" THEN "Unsupported" ELSE s

\* CheckUnityAdapter: the state after the LUID comparison
CheckUnityAdapterState(s, isUnity) == IF ~isUnity THEN "Unsupported" ELSE s

\* faulty variant: Start() also goes on when the session is already Running
StartProceeds_AlsoRunning(s) == s \in {"Ready", "Running"}

\* Start: the guard that lets Start() go on
StartProceeds(s) == s = "Ready"

\* faulty variant: the switch without its DXGI_ERROR_WAIT_TIMEOUT case
AcquireFailedState_NoTimeoutCase(s, hr) ==
    CASE hr = "DXGI_ERROR_ACCESS_LOST" -> "AccessLost"
      [] hr = "DXGI_ERROR_INVALID_CALL" -> s
      [] hr = "E_INVALIDARG" -> s
      [] OTHER -> "Unknown"

\* faulty variant: DXGI_ERROR_INVALID_CALL falls into the default case
AcquireFailedState_InvalidCallUnknown(s, hr) ==
    CASE hr = "DXGI_ERROR_ACCESS_LOST" -> "AccessLost"
      [] hr = "DXGI_ERROR_WAIT_TIMEOUT" -> s
      [] hr = "E_INVALIDARG" -> s
      [] OTHER -> "Unknown"

\* Duplicate: the switch over a failed HRESULT of AcquireNextFrame
AcquireFailedState(s, hr) ==
    CASE hr = "DXGI_ERROR_ACCESS_LOST" -> "AccessLost"
      [] hr = "DXGI_ERROR_WAIT_TIMEOUT" -> s
      [] hr = "DXGI_ERROR_INVALID_CALL" -> s
      [] hr = "E_INVALIDARG" -> s
      [] OTHER -> "Unknown"

\* faulty variant: DXGI_ERROR_INVALID_CALL falls into the default case
ReleaseState_InvalidCallUnknown(s, hr) ==
    IF ~FAILED(hr) THEN s
    ELSE CASE hr = "DXGI_ERROR_ACCESS_LOST" -> "AccessLost"
           [] OTHER -> "Unknown"

\* Release: the state after ReleaseFrame returned hr
ReleaseState(s, hr) ==
    IF ~FAILED(hr) THEN s
    ELSE CASE hr = "DXGI_ERROR_ACCESS_LOST" -> "AccessLost"
           [] hr = "DXGI_ERROR_INVALID_CALL" -> s
           [] OTHER -> "Unknown"

\* faulty variant: the flag is cleared only when ReleaseFrame succeeded
ReleasedFlag_OnlyOnSuccess(hr) == FAILED(hr)

\* Release: isFrameAcquired_ = false; after the switch, whatever ReleaseFrame returned
ReleasedFlag(hr) == FALSE

\* Duplicate: lastFrameId_++ yields the old value as the snapshot's id ...
PublishedId(id) == id

\* the DXGI_OUTDUPL_FRAME_INFO of the frame acquired when the counter was id: the
\* frames are told apart by the number of the tick that acquired them
FrameInfo(id) == id

\* faulty variant: the counter is not incremented
NextFrameId_NoIncrement(id) == id

\* ... and leaves the counter one higher.  The counter is a UINT and wraps to 0
\* after 2^32 - 1 increments, far beyond the MaxFrames increments explored here.
NextFrameId(id) == id + 1

Max(a, b) == IF a >= b THEN a ELSE b

\* the sizes UpdateMetadata was called with: the largest and the last one
Requested(rq, size) == [max |-> Max(rq.max, size), last |-> size]

\* Buffer::ExpandIfNeeded: the capacity grows to the size asked for, never shrinks
ExpandIfNeeded(capacity, size) == IF size > capacity THEN size ELSE capacity

\* faulty variant: the buffer is left as it is
UpdateMetadata_NoExpand(md, totalBufferSize) == md

\* UpdateMetadata: metaData_.buffer.ExpandIfNeeded(totalBufferSize);
UpdateMetadata(md, totalBufferSize) ==
    [md EXCEPT !.capacity = ExpandIfNeeded(@, totalBufferSize)]

\* faulty variant: a null shared texture does not end the tick
Publishes_IgnoresSharedTexture(converted, shared) == converted

\* Duplicate after a successful acquisition: the tick returns early when
\* resource.As fails and when GetCompatibleSharedTexture yields no texture
Publishes(converted, shared) == converted /\ shared

\* Duplicate after a successful acquisition: where the tick ends
ConvertResult(converted, shared) ==
    IF ~converted THEN "As_failed"
    ELSE IF ~shared THEN "shared_null"
    ELSE "published"

\* the loop's exit test after a tick
LoopBreaks(s) == s # "Running"

\* faulty variant: the thread returns without touching the state
ExitState_NoDowngrade(s) == s

\* the thread's last statement
ExitState(s) == IF s = "Running" THEN "Ready" ELSE s

\* a capture thread that was started and has not returned from its function
Live(t) == cpc[t] \notin {"none", "finished"}

LiveThreads == {t \in Threads : Live(t)}

\* The history variables (ret, tickEntry, relHr, acqHr, started, outcome,
\* tickResult, fatal) are kept for the single
\* control thread, where the properties that read them are checked.
Hist(x) == IF Cardinality(callers) = 1 /\ readers = {} THEN x ELSE "none"

\* one control thread and no reader: the configuration whose history is kept
Tracked == Cardinality(callers) = 1 /\ readers = {}

\* the TotalMetadataBufferSize values a frame reports
MetadataSizes == IF Tracked THEN 0 .. MaxMetadataSize ELSE {0}

\* whether the tick outcomes so far end with a published frame followed by an
\* acquisition that returned DXGI_ERROR_ACCESS_LOST; res is the HRESULT of a failed
\* acquisition or the result of the conversions
OutcomeAfter(o, res) ==
    IF o = "success_lost" THEN o
    ELSE IF res = "published" THEN Hist("success")
    ELSE IF res = "S_OK" THEN o
    ELSE IF res = "DXGI_ERROR_ACCESS_LOST" /\ o = "success" THEN "success_lost"
    ELSE "none"

\* the calls explored: unbounded for the single control thread
MayCall(c) == Cardinality(callers) = 1 \/ calls[c] < MaxCallsConcurrent

Called(c) == IF Cardinality(callers) = 1 THEN calls ELSE [calls EXCEPT ![c] = @ + 1]

\* the successful ticks explored
FrameBudget ==
    IF Cardinality(callers) # 1 THEN MaxFramesConcurrent
    ELSE IF readers # {} THEN MaxFramesReader
    ELSE MaxFrames

-----------------------------------------------------------------------------
(* Initial state: the members' default values, before the constructor body *)

MemberDefaults ==
    /\ state_ = "Ready"
    /\ shouldRun_ = FALSE
    /\ thread_ = 0
    /\ isFrameAcquired_ = FALSE
    /\ lastFrameId_ = 0
    /\ lastFrame_ = [id |-> -1, info |-> -1, published |-> FALSE]
    /\ mutex_ = "free"
    /\ metaData_ = [capacity |-> 0]
    /\ dupl_ = FALSE

InitWith(cs, rs) ==
    /\ MemberDefaults
    /\ readers = rs
    /\ rpc = "idle"
    /\ seen = [n |-> 0, id |-> -1, info |-> -1]
    /\ cons = "InitializeDevice"
    /\ deviceCreated = FALSE
    /\ duplHr = "not_called"
    /\ isUnityAdapter \in BOOLEAN
    /\ callers = cs
    /\ pc = [c \in ControlThreads |-> "idle"]
    /\ inStart = [c \in ControlThreads |-> FALSE]
    /\ joining = [c \in ControlThreads |-> 0]
    /\ temp = [c \in ControlThreads |-> 0]
    /\ ret = [c \in ControlThreads |-> "none"]
    /\ calls = [c \in ControlThreads |-> 0]
    /\ cpc = [t \in Threads |-> "none"]
    /\ terminated = FALSE
    /\ tickEntry = "none"
    /\ relHr = "none"
    /\ acqHr = "none"
    /\ published = <<>>
    /\ requested = [max |-> 0, last |-> 0]
    /\ started = IF Cardinality(cs) = 1 /\ rs = {} THEN "never" ELSE "none"
    /\ outcome = "none"
    /\ tickResult = "none"
    /\ fatal = FALSE

\* one control thread, as the Monitor that owns the Duplicator uses it
Init == InitWith({"c1"}, {})

\* two control threads calling Start()/Stop() concurrently
InitConcurrent == InitWith({"c1", "c2"}, {})

\* one control thread and one thread that reads the published snapshot
InitReader == InitWith({"c1"}, {"r1"})

memberVars == <<state_, dupl_, shouldRun_, thread_, isFrameAcquired_, lastFrameId_,
                lastFrame_>>
consVars == <<cons, deviceCreated, duplHr, isUnityAdapter>>
ctlVars == <<callers, pc, inStart, joining, temp, ret, calls>>
tickVars == <<tickEntry, relHr, acqHr, published>>
readerVars == <<readers, mutex_, rpc, seen>>
auxVars == <<metaData_, requested, started, outcome, tickResult, fatal>>

-----------------------------------------------------------------------------
(* Construction *)

InitializeDevice ==
    /\ cons = "InitializeDevice"
    /\ \E createFailed \in BOOLEAN :
        /\ deviceCreated' = ~createFailed
        /\ state_' = InitializeDeviceState(state_, ~createFailed)
    /\ cons' = "InitializeDuplication"
    /\ UNCHANGED <<dupl_, duplHr, isUnityAdapter, shouldRun_, thread_, isFrameAcquired_,
                   lastFrameId_, lastFrame_, cpc, terminated>>
    /\ UNCHANGED ctlVars
    /\ UNCHANGED tickVars
    /\ UNCHANGED readerVars
    /\ UNCHANGED auxVars

\* asFailed: FAILED(GetOutput().As(&output1)), on which the function returns at once
InitializeDuplication ==
    /\ cons = "InitializeDuplication"
    /\ \E asFailed \in BOOLEAN, hr \in DuplicateOutputHr :
        IF asFailed
        THEN UNCHANGED <<state_, dupl_, duplHr>>
        ELSE /\ duplHr' = hr
             /\ dupl_' = ~FAILED(hr)
             /\ state_' = InitializeDuplicationState(hr)
    /\ cons' = "CheckUnityAdapter"
    /\ UNCHANGED <<deviceCreated, isUnityAdapter, shouldRun_, thread_, isFrameAcquired_,
                   lastFrameId_, lastFrame_, cpc, terminated>>
    /\ UNCHANGED ctlVars
    /\ UNCHANGED tickVars
    /\ UNCHANGED readerVars
    /\ UNCHANGED auxVars

CheckUnityAdapter ==
    /\ cons = "CheckUnityAdapter"
    /\ state_' = CheckUnityAdapterState(state_, isUnityAdapter)
    /\ cons' = "done"
    /\ UNCHANGED <<deviceCreated, dupl_, duplHr, isUnityAdapter, shouldRun_, thread_,
                   isFrameAcquired_, lastFrameId_, lastFrame_, cpc, terminated>>
    /\ UNCHANGED ctlVars
    /\ UNCHANGED tickVars
    /\ UNCHANGED readerVars
    /\ UNCHANGED auxVars

Constructed == cons = "done" /\ ~terminated

-----------------------------------------------------------------------------
(* Start() and Stop(), run by a control thread c *)

CallStart(c) ==
    /\ Constructed
    /\ pc[c] = "idle"
    /\ MayCall(c)
    /\ calls' = Called(c)
    /\ pc' = [pc EXCEPT ![c] = "Start"]
    /\ UNCHANGED <<callers, inStart, joining, temp, ret>>
    /\ UNCHANGED <<memberVars, consVars, tickVars, cpc, terminated>>
    /\ UNCHANGED readerVars
    /\ started' = IF started = "never" THEN Hist("called") ELSE started
    /\ UNCHANGED <<metaData_, requested, outcome, tickResult, fatal>>

\* if (state_ != State::Ready) return;  Stop();
StartCheck(c) ==
    /\ Constructed
    /\ pc[c] = "Start"
    /\ IF StartProceeds(state_)
       THEN /\ pc' = [pc EXCEPT ![c] = "Stop_clear"]
            /\ inStart' = [inStart EXCEPT ![c] = TRUE]
            /\ UNCHANGED ret
       ELSE /\ pc' = [pc EXCEPT ![c] = "idle"]
            /\ ret' = [ret EXCEPT ![c] = Hist("Start_noop")]
            /\ UNCHANGED inStart
    /\ UNCHANGED <<callers, joining, temp, calls>>
    /\ UNCHANGED <<memberVars, consVars, tickVars, cpc, terminated>>
    /\ UNCHANGED readerVars
    /\ UNCHANGED auxVars

\* Stop() is also what ~Duplicator runs before the members are destroyed
CallStop(c) ==
    /\ Constructed
    /\ pc[c] = "idle"
    /\ MayCall(c)
    /\ calls' = Called(c)
    /\ pc' = [pc EXCEPT ![c] = "Stop_clear"]
    /\ inStart' = [inStart EXCEPT ![c] = FALSE]
    /\ UNCHANGED <<callers, joining, temp, ret>>
    /\ UNCHANGED <<memberVars, consVars, tickVars, cpc, terminated>>
    /\ UNCHANGED readerVars
    /\ UNCHANGED auxVars

\* shouldRun_ = false;
StopClear(c) ==
    /\ Constructed
    /\ pc[c] = "Stop_clear"
    /\ shouldRun_' = FALSE
    /\ pc' = [pc EXCEPT ![c] = "Stop_joinable"]
    /\ UNCHANGED <<callers, inStart, joining, temp, ret, calls>>
    /\ UNCHANGED <<state_, dupl_, thread_, isFrameAcquired_, lastFrameId_, lastFrame_>>
    /\ UNCHANGED <<consVars, tickVars, cpc, terminated>>
    /\ UNCHANGED readerVars
    /\ UNCHANGED auxVars

\* Stop() returns: to its caller Start(), or to the control thread
StopReturns(c) ==
    IF inStart[c]
    THEN /\ pc' = [pc EXCEPT ![c] = "Start_spawn"]
         /\ UNCHANGED ret
    ELSE /\ pc' = [pc EXCEPT ![c] = "idle"]
         /\ ret' = [ret EXCEPT ![c] = Hist("Stop")]

\* faulty variant: Stop() returns without joining the thread
StopJoinable_NoJoin(c) ==
    /\ Constructed
    /\ pc[c] = "Stop_joinable"
    /\ StopReturns(c)
    /\ UNCHANGED <<callers, inStart, joining, temp, calls>>
    /\ UNCHANGED <<memberVars, consVars, tickVars, cpc, terminated>>
    /\ UNCHANGED readerVars
    /\ UNCHANGED auxVars

\* faulty variant: join() is called without the joinable() test
StopJoinable_AlwaysJoin(c) ==
    /\ Constructed
    /\ pc[c] = "Stop_joinable"
    /\ joining' = [joining EXCEPT ![c] = thread_]
    /\ pc' = [pc EXCEPT ![c] = "Stop_join"]
    /\ UNCHANGED <<callers, inStart, temp, ret, calls>>
    /\ UNCHANGED <<memberVars, consVars, tickVars, cpc, terminated>>
    /\ UNCHANGED readerVars
    /\ UNCHANGED auxVars

\* if (thread_.joinable()) thread_.join();  -- the test, and the call of join()
StopJoinable(c) ==
    /\ Constructed
    /\ pc[c] = "Stop_joinable"
    /\ IF thread_ # 0
       THEN /\ joining' = [joining EXCEPT ![c] = thread_]
            /\ pc' = [pc EXCEPT ![c] = "Stop_join"]
            /\ UNCHANGED ret
       ELSE /\ StopReturns(c)
            /\ UNCHANGED joining
    /\ UNCHANGED <<callers, inStart, temp, calls>>
    /\ UNCHANGED <<memberVars, consVars, tickVars, cpc, terminated>>
    /\ UNCHANGED readerVars
    /\ UNCHANGED auxVars

\* join() returns once the thread's function has returned; thread_ stops being
\* joinable.  A control thread blocked in join() on the same thread is left with a
\* thread that was already joined (joining = 0).
StopJoin(c) ==
    /\ Constructed
    /\ pc[c] = "Stop_join"
    /\ joining[c] # 0
    /\ cpc[joining[c]] = "finished"
    /\ thread_' = 0
    /\ cpc' = [cpc EXCEPT ![joining[c]] = "none"]
    /\ joining' = [d \in ControlThreads |-> IF joining[d] = joining[c] THEN 0 ELSE joining[d]]
    /\ StopReturns(c)
    /\ UNCHANGED <<callers, inStart, temp, calls>>
    /\ UNCHANGED <<state_, dupl_, shouldRun_, isFrameAcquired_, lastFrameId_, lastFrame_>>
    /\ UNCHANGED <<consVars, tickVars, terminated>>
    /\ UNCHANGED readerVars
    /\ UNCHANGED auxVars

\* thread_ = std::thread([this] {...});  -- the temporary is constructed and its
\* thread starts
StartSpawn(c) ==
    /\ Constructed
    /\ pc[c] = "Start_spawn"
    /\ \E t \in Threads :
        /\ cpc[t] = "none"
        /\ \A u \in Threads : cpc[u] = "none" => t <= u
        /\ cpc' = [cpc EXCEPT ![t] = "spawned"]
        /\ temp' = [temp EXCEPT ![c] = t]
    /\ pc' = [pc EXCEPT ![c] = "Start_assign"]
    /\ UNCHANGED <<callers, inStart, joining, ret, calls>>
    /\ UNCHANGED <<memberVars, consVars, tickVars, terminated>>
    /\ UNCHANGED readerVars
    /\ started' = Hist("spawned")
    /\ UNCHANGED <<metaData_, requested, outcome, tickResult, fatal>>

\* ... and move-assigned to thread_, which is not joinable
StartAssign(c) ==
    /\ Constructed
    /\ pc[c] = "Start_assign"
    /\ thread_ = 0
    /\ thread_' = temp[c]
    /\ temp' = [temp EXCEPT ![c] = 0]
    /\ pc' = [pc EXCEPT ![c] = "idle"]
    /\ ret' = [ret EXCEPT ![c] = Hist("Start")]
    /\ UNCHANGED <<callers, inStart, joining, calls>>
    /\ UNCHANGED <<state_, dupl_, shouldRun_, isFrameAcquired_, lastFrameId_, lastFrame_>>
    /\ UNCHANGED <<consVars, tickVars, cpc, terminated>>
    /\ UNCHANGED readerVars
    /\ UNCHANGED auxVars

\* std::thread::operator=(thread&&) on a joinable thread_ calls std::terminate
StartAssignTerminate(c) ==
    /\ Constructed
    /\ pc[c] = "Start_assign"
    /\ thread_ # 0
    /\ terminated' = TRUE
    /\ UNCHANGED <<memberVars, consVars, ctlVars, tickVars, cpc>>
    /\ UNCHANGED readerVars
    /\ UNCHANGED auxVars

\* join() on a thread another control thread has joined meanwhile is undefined:
\* it throws std::system_error out of Stop() (nothing catches it) ...
StopJoinRacedThrows(c) ==
    /\ Constructed
    /\ pc[c] = "Stop_join"
    /\ joining[c] = 0
    /\ terminated' = TRUE
    /\ UNCHANGED <<memberVars, consVars, ctlVars, tickVars, cpc>>
    /\ UNCHANGED readerVars
    /\ UNCHANGED auxVars

\* ... or returns and resets thread_, whatever thread_ owns by then
StopJoinRacedReturns(c) ==
    /\ Constructed
    /\ pc[c] = "Stop_join"
    /\ joining[c] = 0
    /\ thread_' = 0
    /\ StopReturns(c)
    /\ UNCHANGED <<callers, inStart, joining, temp, calls>>
    /\ UNCHANGED <<state_, dupl_, shouldRun_, isFrameAcquired_, lastFrameId_, lastFrame_>>
    /\ UNCHANGED <<consVars, tickVars, cpc, terminated>>
    /\ UNCHANGED readerVars
    /\ UNCHANGED auxVars

-----------------------------------------------------------------------------
(* The capture thread t: the lambda of Start() *)

\* state_ = State::Running;
ThreadSetRunning(t) ==
    /\ ~terminated
    /\ cpc[t] = "spawned"
    /\ state_' = "Running"
    /\ cpc' = [cpc EXCEPT ![t] = "setShouldRun"]
    /\ UNCHANGED <<dupl_, shouldRun_, thread_, isFrameAcquired_, lastFrameId_, lastFrame_>>
    /\ UNCHANGED <<consVars, ctlVars, tickVars, terminated>>
    /\ UNCHANGED readerVars
    /\ UNCHANGED auxVars

\* shouldRun_ = true;
ThreadSetShouldRun(t) ==
    /\ ~terminated
    /\ cpc[t] = "setShouldRun"
    /\ shouldRun_' = TRUE
    /\ cpc' = [cpc EXCEPT ![t] = "while"]
    /\ UNCHANGED <<state_, dupl_, thread_, isFrameAcquired_, lastFrameId_, lastFrame_>>
    /\ UNCHANGED <<consVars, ctlVars, tickVars, terminated>>
    /\ UNCHANGED readerVars
    /\ UNCHANGED auxVars

\* while (shouldRun_)
ThreadWhile(t) ==
    /\ ~terminated
    /\ cpc[t] = "while"
    /\ cpc' = [cpc EXCEPT ![t] = IF shouldRun_ THEN "Duplicate" ELSE "exit"]
    /\ UNCHANGED <<memberVars, consVars, ctlVars, tickVars, terminated>>
    /\ UNCHANGED readerVars
    /\ UNCHANGED auxVars

\* Duplicate(): if (!dupl_ || !device_) return;  Release();
\* device_ is set by make_shared in InitializeDevice and is never null.
DuplicateRelease(t) ==
    /\ ~terminated
    /\ cpc[t] = "Duplicate"
    /\ tickEntry' = Hist(state_)
    /\ acqHr' = "none"
    /\ IF ~dupl_
       THEN /\ relHr' = "none"
            /\ cpc' = [cpc EXCEPT ![t] = "loopCheck"]
            /\ UNCHANGED <<state_, isFrameAcquired_>>
       ELSE /\ cpc' = [cpc EXCEPT ![t] = "Acquire"]
            /\ IF ~isFrameAcquired_
               THEN /\ relHr' = Hist("not_held")
                    /\ UNCHANGED <<state_, isFrameAcquired_>>
               ELSE \E hr \in ReleaseFrameHr :
                        /\ relHr' = Hist(hr)
                        /\ state_' = ReleaseState(state_, hr)
                        /\ isFrameAcquired_' = ReleasedFlag(hr)
    /\ UNCHANGED <<dupl_, shouldRun_, thread_, lastFrameId_, lastFrame_, published>>
    /\ UNCHANGED <<consVars, ctlVars, terminated>>
    /\ UNCHANGED readerVars
    /\ fatal' = (fatal \/ (Tracked /\ state_' # state_))
    /\ UNCHANGED <<metaData_, requested, started, outcome, tickResult>>

\* hr = dupl_->AcquireNextFrame(...); the failure switch, or isFrameAcquired_ = true
DuplicateAcquire(t) ==
    /\ ~terminated
    /\ cpc[t] = "Acquire"
    /\ \E hr \in AcquireNextFrameHr :
        /\ hr = "S_OK" => Len(published) < FrameBudget
        /\ acqHr' = Hist(hr)
        /\ outcome' = OutcomeAfter(outcome, hr)
        /\ IF FAILED(hr)
           THEN /\ state_' = AcquireFailedState(state_, hr)
                /\ cpc' = [cpc EXCEPT ![t] = "loopCheck"]
                /\ UNCHANGED isFrameAcquired_
           ELSE /\ isFrameAcquired_' = TRUE
                /\ cpc' = [cpc EXCEPT ![t] = "Convert"]
                /\ UNCHANGED state_
    /\ UNCHANGED <<dupl_, shouldRun_, thread_, lastFrameId_, lastFrame_>>
    /\ UNCHANGED <<tickEntry, relHr, published>>
    /\ UNCHANGED <<consVars, ctlVars, terminated>>
    /\ UNCHANGED readerVars
    /\ fatal' = (fatal \/ (Tracked /\ state_' # state_))
    /\ UNCHANGED <<metaData_, requested, started, tickResult>>

\* resource.As(&texture), GetCompatibleSharedTexture, the copy, UpdateCursor,
\* UpdateMetadata and the publication of lastFrame_ under mutex_
DuplicatePublish(t) ==
    /\ ~terminated
    /\ cpc[t] = "Convert"
    /\ \E converted \in BOOLEAN, shared \in BOOLEAN, totalBufferSize \in MetadataSizes :
        /\ tickResult' = Hist(ConvertResult(converted, shared))
        /\ outcome' = OutcomeAfter(outcome, ConvertResult(converted, shared))
        /\ IF Publishes(converted, shared)
           THEN /\ metaData_' = UpdateMetadata(metaData_, totalBufferSize)
                /\ requested' = Requested(requested, totalBufferSize)
                /\ lastFrame_' = [id |-> PublishedId(lastFrameId_),
                                 info |-> FrameInfo(lastFrameId_), published |-> TRUE]
                /\ lastFrameId_' = NextFrameId(lastFrameId_)
                /\ published' = Append(published, PublishedId(lastFrameId_))
           ELSE UNCHANGED <<metaData_, requested, lastFrame_, lastFrameId_, published>>
    /\ cpc' = [cpc EXCEPT ![t] = "loopCheck"]
    /\ UNCHANGED <<state_, dupl_, shouldRun_, thread_, isFrameAcquired_>>
    /\ UNCHANGED <<tickEntry, relHr, acqHr>>
    /\ UNCHANGED <<consVars, ctlVars, terminated>>
    /\ UNCHANGED readerVars
    /\ UNCHANGED <<started, fatal>>

\* The same part of Duplicate() at the grain a reader of lastFrame_ can observe:
\* the conversions, then lock_guard(mutex_), then the member-wise assignment of
\* lastFrame_ (id first, the frame's data after it), then the unlock.
DuplicateConvert(t) ==
    /\ ~terminated
    /\ cpc[t] = "Convert"
    /\ \E converted \in BOOLEAN, shared \in BOOLEAN, totalBufferSize \in MetadataSizes :
        /\ cpc' = [cpc EXCEPT ![t] = IF Publishes(converted, shared) THEN "Lock" ELSE "loopCheck"]
        /\ metaData_' = IF Publishes(converted, shared)
                        THEN UpdateMetadata(metaData_, totalBufferSize) ELSE metaData_
        /\ requested' = IF Publishes(converted, shared)
                        THEN Requested(requested, totalBufferSize) ELSE requested
    /\ UNCHANGED <<memberVars, consVars, ctlVars, tickVars, terminated>>
    /\ UNCHANGED readerVars
    /\ UNCHANGED <<started, outcome, tickResult, fatal>>

\* std::lock_guard<std::mutex> lock(mutex_);
PublishLock(t) ==
    /\ ~terminated
    /\ cpc[t] = "Lock"
    /\ mutex_ = "free"
    /\ mutex_' = "capture"
    /\ cpc' = [cpc EXCEPT ![t] = "WriteId"]
    /\ UNCHANGED <<memberVars, consVars, ctlVars, tickVars, terminated>>
    /\ UNCHANGED <<readers, rpc, seen>>
    /\ UNCHANGED auxVars

\* lastFrame_.id = lastFrameId_++
PublishId(t) ==
    /\ ~terminated
    /\ cpc[t] = "WriteId"
    /\ lastFrame_' = [lastFrame_ EXCEPT !.id = PublishedId(lastFrameId_),
                                        !.published = TRUE]
    /\ lastFrameId_' = NextFrameId(lastFrameId_)
    /\ published' = Append(published, PublishedId(lastFrameId_))
    /\ cpc' = [cpc EXCEPT ![t] = "WriteInfo"]
    /\ UNCHANGED <<state_, dupl_, shouldRun_, thread_, isFrameAcquired_>>
    /\ UNCHANGED <<tickEntry, relHr, acqHr>>
    /\ UNCHANGED <<consVars, ctlVars, terminated>>
    /\ UNCHANGED readerVars
    /\ UNCHANGED auxVars

\* lastFrame_.texture, .info, .metaData = ...; the lock_guard's scope ends
PublishInfo(t) ==
    /\ ~terminated
    /\ cpc[t] = "WriteInfo"
    /\ lastFrame_' = [lastFrame_ EXCEPT !.info = FrameInfo(lastFrame_.id)]
    /\ mutex_' = "free"
    /\ cpc' = [cpc EXCEPT ![t] = "loopCheck"]
    /\ UNCHANGED <<state_, dupl_, shouldRun_, thread_, isFrameAcquired_, lastFrameId_>>
    /\ UNCHANGED <<consVars, ctlVars, tickVars, terminated>>
    /\ UNCHANGED <<readers, rpc, seen>>
    /\ UNCHANGED auxVars

\* if (state_ != State::Running) break;
ThreadLoopCheck(t) ==
    /\ ~terminated
    /\ cpc[t] = "loopCheck"
    /\ cpc' = [cpc EXCEPT ![t] = IF LoopBreaks(state_) THEN "exit" ELSE "while"]
    /\ tickEntry' = "none"
    /\ relHr' = "none"
    /\ acqHr' = "none"
    /\ UNCHANGED <<memberVars, consVars, ctlVars, published, terminated>>
    /\ UNCHANGED readerVars
    /\ tickResult' = "none"
    /\ UNCHANGED <<metaData_, requested, started, outcome, fatal>>

\* if (state_ == State::Running) state_ = State::Ready;  and the function returns
ThreadExit(t) ==
    /\ ~terminated
    /\ cpc[t] = "exit"
    /\ state_' = ExitState(state_)
    /\ cpc' = [cpc EXCEPT ![t] = "finished"]
    /\ UNCHANGED <<dupl_, shouldRun_, thread_, isFrameAcquired_, lastFrameId_, lastFrame_>>
    /\ UNCHANGED <<consVars, ctlVars, tickVars, terminated>>
    /\ UNCHANGED readerVars
    /\ UNCHANGED auxVars

-----------------------------------------------------------------------------
(* A reader r of the published snapshot (Monitor::Render on Unity's thread) *)

\* GetLastFrame(): std::lock_guard<std::mutex> lock(mutex_);
ReaderLock(r) ==
    /\ Constructed
    /\ rpc = "idle"
    /\ mutex_ = "free"
    /\ mutex_' = r
    /\ rpc' = "locked"
    /\ seen' = [n |-> 0, id |-> -1, info |-> -1]
    /\ UNCHANGED <<memberVars, consVars, ctlVars, tickVars, cpc, terminated, readers>>
    /\ UNCHANGED auxVars

\* return lastFrame_;  -- a reference; the lock_guard is destroyed on return
ReaderReturn(r) ==
    /\ Constructed
    /\ rpc = "locked"
    /\ mutex_' = "free"
    /\ rpc' = "readId"
    /\ UNCHANGED <<memberVars, consVars, ctlVars, tickVars, cpc, terminated, readers, seen>>
    /\ UNCHANGED auxVars

\* the caller reads frame.id through the reference
ReaderReadId(r) ==
    /\ Constructed
    /\ rpc = "readId"
    /\ seen' = [seen EXCEPT !.n = 1, !.id = lastFrame_.id]
    /\ rpc' = "readInfo"
    /\ UNCHANGED <<memberVars, consVars, ctlVars, tickVars, cpc, terminated, readers, mutex_>>
    /\ UNCHANGED auxVars

\* the caller reads the frame's data (texture, info, metaData) through the reference
ReaderReadInfo(r) ==
    /\ Constructed
    /\ rpc = "readInfo"
    /\ seen' = [seen EXCEPT !.n = 2, !.info = lastFrame_.info]
    /\ rpc' = "idle"
    /\ UNCHANGED <<memberVars, consVars, ctlVars, tickVars, cpc, terminated, readers, mutex_>>
    /\ UNCHANGED auxVars

\* a step of the tick: a call on the duplication handle or the device
TickStep(t) == DuplicateRelease(t) \/ DuplicateAcquire(t) \/ DuplicatePublish(t)

CaptureThread(t) ==
    \/ ThreadSetRunning(t)
    \/ ThreadSetShouldRun(t)
    \/ ThreadWhile(t)
    \/ DuplicateRelease(t)
    \/ DuplicateAcquire(t)
    \/ DuplicatePublish(t)
    \/ ThreadLoopCheck(t)
    \/ ThreadExit(t)

\* the steps of a call in progress (a control thread is not bound to call)
InCall(c) ==
    \/ StartCheck(c)
    \/ StopClear(c)
    \/ StopJoinable(c)
    \/ StopJoin(c)
    \/ StartSpawn(c)
    \/ StartAssign(c)

-----------------------------------------------------------------------------
(* Specifications *)

Next ==
    \/ InitializeDevice
    \/ InitializeDuplication
    \/ CheckUnityAdapter
    \/ \E c \in callers : CallStart(c)
    \/ \E c \in callers : CallStop(c)
    \/ \E c \in callers : StartCheck(c)
    \/ \E c \in callers : StopClear(c)
    \/ \E c \in callers : StopJoinable(c)
    \/ \E c \in callers : StopJoin(c)
    \/ \E c \in callers : StartSpawn(c)
    \/ \E c \in callers : StartAssign(c)
    \/ \E t \in Threads : ThreadSetRunning(t)
    \/ \E t \in Threads : ThreadSetShouldRun(t)
    \/ \E t \in Threads : ThreadWhile(t)
    \/ \E t \in Threads : DuplicateRelease(t)
    \/ \E t \in Threads : DuplicateAcquire(t)
    \/ \E t \in Threads : DuplicatePublish(t)
    \/ \E t \in Threads : ThreadLoopCheck(t)
    \/ \E t \in Threads : ThreadExit(t)

Spec == Init /\ [][Next]_vars

\* the steps of Next with the publication at the grain a reader observes
NextReader ==
    \/ InitializeDevice
    \/ InitializeDuplication
    \/ CheckUnityAdapter
    \/ \E c \in callers : CallStart(c)
    \/ \E c \in callers : CallStop(c)
    \/ \E c \in callers : StartCheck(c)
    \/ \E c \in callers : StopClear(c)
    \/ \E c \in callers : StopJoinable(c)
    \/ \E c \in callers : StopJoin(c)
    \/ \E c \in callers : StartSpawn(c)
    \/ \E c \in callers : StartAssign(c)
    \/ \E t \in Threads : ThreadSetRunning(t)
    \/ \E t \in Threads : ThreadSetShouldRun(t)
    \/ \E t \in Threads : ThreadWhile(t)
    \/ \E t \in Threads : DuplicateRelease(t)
    \/ \E t \in Threads : DuplicateAcquire(t)
    \/ \E t \in Threads : ThreadLoopCheck(t)
    \/ \E t \in Threads : ThreadExit(t)
    \/ \E t \in Threads : DuplicateConvert(t)
    \/ \E t \in Threads : PublishLock(t)
    \/ \E t \in Threads : PublishId(t)
    \/ \E t \in Threads : PublishInfo(t)
    \/ \E r \in readers : ReaderLock(r)
    \/ \E r \in readers : ReaderReturn(r)
    \/ \E r \in readers : ReaderReadId(r)
    \/ \E r \in readers : ReaderReadInfo(r)

SpecReader == InitReader /\ [][NextReader]_vars

NextConcurrent ==
    \/ Next
    \/ \E c \in callers : StartAssignTerminate(c)
    \/ \E c \in callers : StopJoinRacedThrows(c)
    \/ \E c \in callers : StopJoinRacedReturns(c)

SpecConcurrent == InitConcurrent /\ [][NextConcurrent]_vars

\* the scheduler runs every thread that can take a step; AcquireNextFrame returns
\* within its timeout, so a tick always completes
FairSpec ==
    /\ Spec
    /\ WF_vars(\E t \in Threads : CaptureThread(t))
    /\ WF_vars(\E c \in callers : InCall(c))

TypeOK ==
    /\ state_ \in States
    /\ cons \in {"InitializeDevice", "InitializeDuplication", "CheckUnityAdapter", "done"}
    /\ thread_ \in {0} \cup Threads
    /\ shouldRun_ \in BOOLEAN
    /\ isFrameAcquired_ \in BOOLEAN
    /\ lastFrameId_ \in Nat
    /\ Len(published) <= MaxFrames + MaxThreads

-----------------------------------------------------------------------------
(* Properties *)

\* C1: for every HRESULT DuplicateOutput returns, the state InitializeDuplication
\* leaves is the one the mapping table gives: S_OK -> Ready, E_INVALIDARG ->
\* InvalidArg, E_ACCESSDENIED -> AccessDenied, DXGI_ERROR_UNSUPPORTED -> Unsupported,
\* DXGI_ERROR_NOT_CURRENTLY_AVAILABLE -> CurrentlyNotAvailable,
\* DXGI_ERROR_SESSION_DISCONNECTED -> SessionDisconnected, any other code -> Unknown.
C1_InitializeDuplicationMapping ==
    (cons = "CheckUnityAdapter" /\ duplHr # "not_called") =>
        /\ duplHr = "S_OK" => state_ = "Ready"
        /\ duplHr = "E_INVALIDARG" => state_ = "InvalidArg"
        /\ duplHr = "E_ACCESSDENIED" => state_ = "AccessDenied"
        /\ duplHr = "DXGI_ERROR_UNSUPPORTED" => state_ = "Unsupported"
        /\ duplHr = "DXGI_ERROR_NOT_CURRENTLY_AVAILABLE" => state_ = "CurrentlyNotAvailable"
        /\ duplHr = "DXGI_ERROR_SESSION_DISCONNECTED" => state_ = "SessionDisconnected"
        /\ duplHr \notin {"S_OK", "E_INVALIDARG", "E_ACCESSDENIED", "DXGI_ERROR_UNSUPPORTED",
                          "DXGI_ERROR_NOT_CURRENTLY_AVAILABLE",
                          "DXGI_ERROR_SESSION_DISCONNECTED"} => state_ = "Unknown"

\* InitializeDuplication has just mapped E_ACCESSDENIED
C1_Witness ==
    cons = "CheckUnityAdapter" /\ duplHr = "E_ACCESSDENIED" /\ state_ = "AccessDenied"

\* C2: when the Unity adapter differs from the capture adapter, the state after
\* construction is Unsupported and IsError() is true, whatever device creation and
\* DuplicateOutput returned.
C2_AdapterMismatchUnsupported ==
    (cons = "done" /\ ~isUnityAdapter) => (state_ = "Unsupported" /\ IsError)

\* constructed on a foreign adapter although device and duplication were created
C2_Witness ==
    cons = "done" /\ ~isUnityAdapter /\ deviceCreated /\ duplHr = "S_OK" /\ dupl_

\* C3: when device creation failed, the state after construction is an error state,
\* whatever DuplicateOutput returned.
C3_DeviceFailureIsError ==
    (cons = "done" /\ ~deviceCreated) => IsError

\* C4: a Start() that finds the state different from Ready returns at once: no
\* capture thread is spawned and the state, the run-flag, the held-frame flag and
\* the published snapshot are as they were.
C4_StartNoOpUnlessReady ==
    [][(pc["c1"] = "Start" /\ state_ # "Ready" /\ pc'["c1"] # "Start") =>
          /\ pc'["c1"] = "idle"
          /\ UNCHANGED <<state_, shouldRun_, isFrameAcquired_, lastFrame_, lastFrameId_,
                         thread_, temp, cpc>>]_vars

\* Start() returned without effect while the capture thread was in a tick
C4_Witness ==
    /\ pc["c1"] = "idle" /\ ret["c1"] = "Start_noop"
    /\ state_ = "Running" /\ cpc[1] = "Acquire"

\* C5: whatever the interleaving of Start() calls, no two capture threads of the
\* session exist at once.
C5_OneCaptureThread == Cardinality(LiveThreads) <= 1

\* Stop() has returned to the control thread, which has made no call since
StoppedIdle == pc["c1"] = "idle" /\ ret["c1"] = "Stop"

\* C6: between the return of Stop() and the next call, the capture thread has
\* exited and was joined, and no step of a tick (nor any other step of a capture
\* thread) is taken.
C6_NoTickAfterStop ==
    [][StoppedIdle =>
          /\ LiveThreads = {}
          /\ thread_ = 0
          /\ pc'["c1"] = "idle" =>
                UNCHANGED <<cpc, state_, isFrameAcquired_, lastFrame_, lastFrameId_,
                            published>>]_vars

\* Stop() returned after a capture thread had published a snapshot
C6_Witness ==
    StoppedIdle /\ Len(published) > 0 /\ \A t \in Threads : cpc[t] = "none"

\* C7: every call of Stop() eventually returns.
C7_StopReturns ==
    (pc["c1"] \in {"Stop_clear", "Stop_joinable", "Stop_join"})
        ~> (pc["c1"] \notin {"Stop_clear", "Stop_joinable", "Stop_join"})

\* C8: once the constructed session is in an error state, no step of Start(), Stop()
\* or a capture thread brings the state back to Ready or Running.
C8_ErrorStateSticky ==
    [][(cons = "done" /\ IsErrorState(state_)) => IsErrorState(state_')]_vars

\* a tick has ended (the loop's exit test comes next) with AcquireNextFrame timed out
TickEndedWithTimeout ==
    /\ \E t \in Threads : cpc[t] = "loopCheck"
    /\ acqHr = "DXGI_ERROR_WAIT_TIMEOUT"

\* C9 as stated: after a tick whose acquisition timed out, the state is the state
\* before the tick.
C9_TimeoutKeepsState == TickEndedWithTimeout => state_ = tickEntry

\* C9 amended: after a tick whose acquisition timed out, the state is the state the
\* tick's leading Release left: the state before the tick when no frame was held or
\* ReleaseFrame succeeded or failed with DXGI_ERROR_INVALID_CALL, AccessLost when it
\* failed with DXGI_ERROR_ACCESS_LOST, Unknown when it failed with any other code.
C9_TimeoutKeepsStateOfRelease ==
    TickEndedWithTimeout =>
        /\ relHr \in {"not_held", "S_OK", "DXGI_ERROR_INVALID_CALL"} => state_ = tickEntry
        /\ relHr = "DXGI_ERROR_ACCESS_LOST" => state_ = "AccessLost"
        /\ relHr \notin {"not_held", "S_OK", "DXGI_ERROR_INVALID_CALL",
                         "DXGI_ERROR_ACCESS_LOST"} => state_ = "Unknown"

\* a tick released the held frame, timed out, and left the session Running
C9_Witness ==
    TickEndedWithTimeout /\ relHr = "S_OK" /\ tickEntry = "Running" /\ state_ = "Running"

\* C10: the ids of the published snapshots are strictly increasing in the order of
\* publication, and the snapshot GetLastFrame() returns carries the latest of them.
C10_SequenceIdIncreasing ==
    /\ \A i, j \in 1..Len(published) : i < j => published[i] < published[j]
    /\ lastFrame_.published => lastFrame_.id = published[Len(published)]

\* three snapshots were published
C10_Witness == Len(published) >= 3 /\ lastFrame_.published

\* C11: whenever the reader has read the fields of the snapshot it got from
\* GetLastFrame(), the fields belong to one publication.
C11_ReaderSeesWholeSnapshot ==
    seen.n = 2 => seen.info = FrameInfo(seen.id)

\* C12: the capacity of the metadata buffer never decreases, and it is at least
\* the largest TotalMetadataBufferSize passed to UpdateMetadata so far.
C12_MetadataNeverShrinks ==
    [][/\ metaData_'.capacity >= metaData_.capacity
       /\ metaData_'.capacity >= requested'.max]_vars

\* two successful ticks asked for the largest size and then for a smaller one
C12_Witness ==
    /\ Len(published) = 2
    /\ requested.max = MaxMetadataSize
    /\ metaData_.capacity = MaxMetadataSize
    /\ tickResult = "published"
    /\ requested.last < MaxMetadataSize

\* C13: once a published tick was followed by a tick whose acquisition returned
\* DXGI_ERROR_ACCESS_LOST, the state is AccessLost and stays AccessLost, no further
\* acquisition is attempted and no further snapshot is published.
C13_AccessLostEndsCapture ==
    [][/\ outcome' = "success_lost" => state_' = "AccessLost"
       /\ outcome = "success_lost" =>
            /\ published' = published
            /\ \A t \in Threads : ~(cpc[t] = "Acquire" /\ cpc'[t] # "Acquire")]_vars

\* C14: as long as Start() was never called on the constructed session, a Stop()
\* changes no member (the state included), starts and joins no thread, and does
\* not reach join(): it returns without blocking.
C14_StopBeforeStartNoOp ==
    [][(cons = "done" /\ started = "never") =>
            /\ UNCHANGED memberVars
            /\ cpc' = cpc
            /\ pc'["c1"] # "Stop_join"
            /\ pc["c1"] = "Stop_joinable" => (pc'["c1"] = "idle" /\ ret'["c1"] = "Stop")]_vars

\* Stop() has returned on a Ready session on which Start() was never called
C14_Witness ==
    /\ cons = "done"
    /\ started = "never"
    /\ pc["c1"] = "idle"
    /\ ret["c1"] = "Stop"
    /\ state_ = "Ready"

\* C15: a tick whose AcquireNextFrame fails changes the state by the mapping
\* DXGI_ERROR_ACCESS_LOST -> AccessLost; DXGI_ERROR_WAIT_TIMEOUT,
\* DXGI_ERROR_INVALID_CALL, E_INVALIDARG -> unchanged; any other code -> Unknown.
\* It publishes no snapshot and leaves the held-frame flag unset.
C15_AcquireFailureMapping ==
    [][\A t \in Threads :
        (cpc[t] = "Acquire" /\ cpc'[t] # "Acquire" /\ FAILED(acqHr')) =>
            /\ acqHr' = "DXGI_ERROR_ACCESS_LOST" => state_' = "AccessLost"
            /\ acqHr' \in {"DXGI_ERROR_WAIT_TIMEOUT", "DXGI_ERROR_INVALID_CALL",
                           "E_INVALIDARG"} => state_' = state_
            /\ acqHr' \notin {"DXGI_ERROR_ACCESS_LOST", "DXGI_ERROR_WAIT_TIMEOUT",
                              "DXGI_ERROR_INVALID_CALL", "E_INVALIDARG"} =>
                    state_' = "Unknown"
            /\ UNCHANGED <<lastFrame_, lastFrameId_, published>>
            /\ ~isFrameAcquired_'
            /\ cpc'[t] = "loopCheck"]_vars

\* after a published tick, a tick of the Running session has ended with an
\* invalid-call acquisition
C15_Witness ==
    \E t \in Threads :
        /\ cpc[t] = "loopCheck"
        /\ ~isFrameAcquired_
        /\ acqHr = "DXGI_ERROR_INVALID_CALL"
        /\ state_ = "Running"
        /\ published # <<>>

\* the step of a tick in which Release() called ReleaseFrame and it failed
ReleaseFailed(t) ==
    /\ cpc[t] = "Duplicate"
    /\ cpc'[t] = "Acquire"
    /\ relHr' \in ReleaseFrameHr
    /\ FAILED(relHr')

\* C16: when ReleaseFrame fails, DXGI_ERROR_ACCESS_LOST sets AccessLost and every
\* other failure code, DXGI_ERROR_INVALID_CALL included, sets Unknown.
C16_ReleaseFailureMapping ==
    [][\A t \in Threads : ReleaseFailed(t) =>
            state_' = IF relHr' = "DXGI_ERROR_ACCESS_LOST" THEN "AccessLost" ELSE "Unknown"]_vars

\* C16 as the code has it: when ReleaseFrame fails, DXGI_ERROR_ACCESS_LOST sets
\* AccessLost, DXGI_ERROR_INVALID_CALL leaves the state unchanged, and every
\* other failure code sets Unknown.
C16_ReleaseFailureMappingInvalidCall ==
    [][\A t \in Threads : ReleaseFailed(t) =>
            /\ relHr' = "DXGI_ERROR_ACCESS_LOST" => state_' = "AccessLost"
            /\ relHr' = "DXGI_ERROR_INVALID_CALL" => state_' = state_
            /\ relHr' \notin {"DXGI_ERROR_ACCESS_LOST", "DXGI_ERROR_INVALID_CALL"} =>
                    state_' = "Unknown"]_vars

\* the release of a held frame failed with invalid-call and the session is Running
C16_Witness ==
    \E t \in Threads :
        /\ cpc[t] = "Acquire"
        /\ relHr = "DXGI_ERROR_INVALID_CALL"
        /\ state_ = "Running"

\* C17: whenever a capture thread is about to call AcquireNextFrame, the
\* held-frame flag is false: the tick's Release cleared it, whether ReleaseFrame
\* succeeded or failed.
C17_NoAcquireWhileHeld ==
    \A t \in Threads : cpc[t] = "Acquire" => ~isFrameAcquired_

\* the tick is about to acquire after ReleaseFrame failed on the frame it held
C17_Witness ==
    \E t \in Threads :
        /\ cpc[t] = "Acquire"
        /\ relHr = "E_FAIL"
        /\ ~isFrameAcquired_

\* C18: a tick publishes exactly when its acquisition, the conversion to a
\* texture and the shared-texture lookup all succeed, and then publishes one
\* snapshot with the counter's value as id; a tick that fails in any of the three
\* leaves lastFrame_ and lastFrameId_ as they were; after a successful acquisition
\* the held-frame flag stays set until a later tick's Release step clears it.
C18_PublishesExactlyOnSuccess ==
    [][/\ \A t \in Threads : (cpc[t] = "Convert" /\ cpc'[t] # "Convert") =>
            /\ isFrameAcquired_ /\ isFrameAcquired_'
            /\ tickResult' \in {"published", "As_failed", "shared_null"}
            /\ tickResult' = "published" =>
                    /\ published' = Append(published, lastFrameId_)
                    /\ lastFrame_'.id = lastFrameId_
                    /\ lastFrame_'.published
                    /\ lastFrameId_' = lastFrameId_ + 1
            /\ tickResult' # "published" => UNCHANGED <<lastFrame_, lastFrameId_, published>>
       /\ \A t \in Threads : (cpc[t] = "Acquire" /\ FAILED(acqHr')) =>
            UNCHANGED <<lastFrame_, lastFrameId_, published>>
       /\ (published' # published \/ lastFrame_' # lastFrame_ \/ lastFrameId_' # lastFrameId_) =>
            \E t \in Threads :
                cpc[t] = "Convert" /\ acqHr = "S_OK" /\ tickResult' = "published"
       /\ (isFrameAcquired_ /\ ~isFrameAcquired_') =>
            \E t \in Threads : cpc[t] = "Duplicate" /\ cpc'[t] = "Acquire"]_vars

\* after a published tick, a tick acquired a frame and found no shared texture:
\* the earlier snapshot is still the published one and the frame is held
C18_Witness ==
    \E t \in Threads :
        /\ cpc[t] = "loopCheck"
        /\ tickResult = "shared_null"
        /\ isFrameAcquired_
        /\ published = <<0>>
        /\ lastFrame_.id = 0
        /\ lastFrameId_ = 1

\* C19: a capture thread that leaves its loop while the state is Running sets
\* Ready as its last statement; and when Stop() has returned after a Start() that
\* spawned a thread, with no tick having set an error state, the state is Ready,
\* so that a later Start() goes on.
C19_StopLeavesReady ==
    [][/\ \A t \in Threads :
            (cpc[t] = "exit" /\ cpc'[t] = "finished" /\ state_ = "Running") =>
                state_' = "Ready"
       /\ (StoppedIdle /\ started = "spawned" /\ ~fatal) =>
            (state_ = "Ready" /\ StartProceeds(state_) /\ LiveThreads = {})]_vars

\* Start() spawned a thread that published a frame, then Stop() returned: Ready
C19_Witness ==
    /\ StoppedIdle
    /\ started = "spawned"
    /\ ~fatal
    /\ published # <<>>
    /\ state_ = "Ready"
    /\ thread_ = 0

\* C20: no frame is held once the capture thread has exited: whenever no capture
\* thread is live, the held-frame flag is false.
C20_NoFrameHeldAfterExit ==
    LiveThreads = {} => ~isFrameAcquired_

====
